---- MODULE Spec2Model ----
(***************************************************************************)
(* Model of frontend-cli-pure: the project creation orchestrator           *)
(* (lib/core/creator.js, class Creator), the create command                *)
(* (lib/commands/create.js) and the package-manager adapter                *)
(* (lib/utils/PackageManager.js).                                          *)
(*                                                                         *)
(* One run of Creator.create is a chain of awaited calls.  Every await is  *)
(* one step of the model; pc is the position of the run in that chain.     *)
(* The collaborators (inquirer prompts, fs-extra, the child process, the   *)
(* registered hooks) answer nondeterministically with every outcome they   *)
(* can produce.                                                            *)
(***************************************************************************)
EXTENDS Integers, Sequences, FiniteSets, TLC

\* ------------------------------------------------------------------ bounds
MaxHooks == 1           \* callbacks registered per hook list

\* ------------------------------------------------------------ value spaces
\* Key of the only entry of the built-in registry, creator.js:433.
BuiltinKey == "Vue"
\* Names given with --preset: the built-in key, a name defined under
\* "presets" in the project-local configuration file, a name defined nowhere.
PresetNames == {BuiltinKey, "saved", "ghost"}
\* Strings given with --inline-preset: an object and a malformed text.
InlinePayloads == {"{yarn}", "{bad"}
PackageManagers == {"npm", "yarn", "pnpm"}
\* Project names given to the constructor.
ProjectNames == {"my-app", "web"}
None == "none"

\* A preset: its name, options.packageManager (None when options or the key
\* is missing) and a top-level packageManager key (None when missing).
MkPreset(n, o, t) == [name |-> n, options |-> o, packageManager |-> t]

VARIABLES
  pc,              \* position of the run inside Creator.create
  cliOptions,      \* first argument of create()
  presetParam,     \* second argument of create()
  preset,          \* this.preset
  attached,        \* the presets assigned to this.preset (line 69) in this run
  decision,        \* what validateTargetDirectory decided in this run
  events,          \* 'creation' events emitted in this run, in order
  raised,          \* the error a step of this run has thrown, None otherwise
  thrown,          \* the error create() rejected with, None otherwise
  target,          \* the target directory this.context on disk
  cwdConfig,       \* <cwd>/.frontendrc.json: whether it exists, its "presets"
  fsLog,           \* mutating filesystem operations issued in this run
  promptLog,       \* prompts shown in this run
  consulted,       \* preset sources consulted by resolvePreset in this run
  afterInvokeCbs,  \* this.afterInvokeCbs: the registered callbacks
  afterAnyInvokeCbs,
  hookLog,         \* callbacks started in this run
  hookIdx,         \* index of the next callback in the list being run
  generator,       \* what this.generateProjectFiles is
  child,           \* the package-manager command of this run and how it ended
  preTarget,       \* the target directory as it was when this run started
  name,            \* this.name, the project name given to the constructor
  warnings,        \* what this run has logged with logger.warn
  cli,             \* one call of createProject (create.js): its position and effects
  adapter,         \* a PackageManager instance: its fields after construction
  call,            \* the method of the adapter being run and its runCommand
  resolver,        \* one call of findExecutable: its inputs and its result
  logger           \* the Logger instance (logger.js) and what it wrote

vars == <<pc, cliOptions, presetParam, preset, attached, decision,
          events, raised, thrown, target, cwdConfig, fsLog, promptLog, consulted,
          afterInvokeCbs, afterAnyInvokeCbs, hookLog, hookIdx, generator,
          child, preTarget, name, warnings, cli, adapter, call,
          resolver, logger>>

\* The state of Creator, and the state of the command and of the adapter
\* when they are used on their own.
creatorVars == <<pc, cliOptions, presetParam, preset, attached, decision,
                 events, raised, thrown, target, cwdConfig, fsLog, promptLog,
                 consulted, afterInvokeCbs, afterAnyInvokeCbs, hookLog, hookIdx,
                 generator, child, preTarget, name, warnings>>
utilVars == <<cli, adapter, call, resolver, logger>>

\* ---------------------------------------------------------------- helpers
\* k callbacks registered in the list named l.
Callbacks(l, k) == [i \in 1..k |-> <<l, i>>]
Range(s) == {s[i] : i \in 1..Len(s)}

NullPreset == MkPreset(None, None, None)

\* creator.js:431 getAvailablePresets: the static built-in registry.
getAvailablePresets == [k \in {BuiltinKey} |-> MkPreset("vue-basic", None, None)]

\* creator.js:444 getDefaultPreset.
getDefaultPreset == getAvailablePresets[BuiltinKey]

\* JSON.parse of an inline payload (creator.js:110): whether it throws, and
\* the object it yields.
JsonParses(s) == s = "{yarn}"
JsonValue(s) == MkPreset("inline", "yarn", None)

\* The preset stored under "presets" in the project-local configuration file.
SavedPreset(n) == MkPreset(n, "pnpm", None)

\* The 'creation' events (creator.js:62, 94, 306, 369, 387, 409, 90).
Ev(e) == [event |-> e, error |-> None]
ErrEv(err) == [event |-> "error", error |-> err]
Phases(evs) == [i \in 1..Len(evs) |-> evs[i].event]

\* The options create() can be called with.
CliOptionsSpace ==
  [preset : {None} \cup PresetNames,
   inlinePreset : {None} \cup InlinePayloads,
   default : BOOLEAN, force : BOOLEAN, merge : BOOLEAN, git : BOOLEAN,
   packageManager : {None} \cup PackageManagers, yes : BOOLEAN]
NoOptions == [preset |-> None, inlinePreset |-> None, default |-> FALSE,
              force |-> FALSE, merge |-> FALSE, git |-> TRUE,
              packageManager |-> None, yes |-> FALSE]
GivenPreset == MkPreset("given", "yarn", None)

\* The calls create(cliOptions, preset): every combination of the options
\* Creator reads without a preset argument; a preset argument with each
\* combination of the flags that are read when resolvePreset is not called;
\* and --package-manager and --yes (create.js:47, 52), which the command
\* passes on in cliOptions, with every preset source that resolves.
Calls ==
  {<<o, NullPreset>> : o \in {x \in CliOptionsSpace :
       x.packageManager = None /\ ~x.yes}} \cup
  {<<o, GivenPreset>> : o \in {x \in CliOptionsSpace :
       /\ x.preset = None /\ x.inlinePreset = None /\ ~x.default
       /\ x.packageManager = None /\ ~x.yes}} \cup
  {<<o, NullPreset>> : o \in {x \in CliOptionsSpace :
       /\ x.packageManager # None \/ x.yes
       /\ x.preset \in {None, "saved"} /\ x.inlinePreset \in {None, "{yarn}"}
       /\ ~x.force /\ ~x.merge /\ x.git}}

\* The target directory as a run can find it: absent, holding a foreign file,
\* or holding what an earlier complete run of create() has written there.
\* creator.js:351-355 saveConfiguration: the object written to
\* .frontendrc.json; the timestamp of this run is "now".
\* Variant: the preset is left out of the metadata.
configData_WithoutPreset(p, n) == [preset |-> NullPreset, name |-> n, created |-> "now"]
configData(p, n) == [preset |-> p, name |-> n, created |-> "now"]
\* No .frontendrc.json in the directory.
NoRc == [preset |-> NullPreset, name |-> None, created |-> None]

\* The target directory as a run can find it: absent, holding a foreign file,
\* or holding what an earlier complete run of create() has written there.
\* pkg is the "name" of package.json (None without the file), rc the object in
\* .frontendrc.json (NoRc without the file).
NoTree == [exists |-> FALSE, files |-> {}, pkg |-> None, rc |-> NoRc]
TargetTrees ==
  {NoTree,
   [exists |-> TRUE, files |-> {"old.txt"}, pkg |-> None, rc |-> NoRc],
   [exists |-> TRUE, files |-> {"old.txt", "package.json", ".frontendrc.json"},
    pkg |-> "old-app",
    rc |-> [preset |-> getDefaultPreset, name |-> "old-app", created |-> "earlier"]]}

NoChild == [command |-> None, cwd |-> None, status |-> "none"]

\* No call of createProject, no adapter, no method and no lookup under way.
NoCli == [phase |-> "idle"]
NoAdapter == [packageManager |-> None]
NoCall == [method |-> None]
NoResolver == [command |-> None]
\* logger.js:21-26: new Logger(options), before it has written anything; a
\* missing level is 'info'. console holds the levels of the messages log has
\* passed to console.log, last the last call of log.
NoLast == [level |-> None]
NewLogger(level, silent) ==
  [level |-> IF level = None THEN "info" ELSE level, silent |-> silent,
   console |-> <<>>, last |-> NoLast]
\* logger.js:221: the Logger the module exports, constructed without options.
DefaultLogger == NewLogger(None, FALSE)
UtilsAtRest ==
  /\ cli = NoCli
  /\ adapter = NoAdapter
  /\ call = NoCall
  /\ resolver = NoResolver
  /\ logger = DefaultLogger

\* ------------------------------------------------------------------- Init
\* A Creator right after construction (creator.js:34-52), the callbacks the
\* caller has registered, and the disk as the run may find it.
Init ==
  /\ pc = "idle"
  /\ cliOptions = NoOptions
  /\ presetParam = NullPreset
  /\ preset = NullPreset
  /\ attached = <<>>
  /\ decision = None
  /\ events = <<>>
  /\ raised = None
  /\ thrown = None
  /\ target \in TargetTrees
  /\ cwdConfig \in {[exists |-> FALSE, presets |-> {}],
                    [exists |-> TRUE, presets |-> {"saved", BuiltinKey}]}
  /\ fsLog = <<>>
  /\ promptLog = <<>>
  /\ consulted = <<>>
  /\ afterInvokeCbs \in {Callbacks("afterInvoke", k) : k \in 0..MaxHooks}
  /\ afterAnyInvokeCbs \in {Callbacks("afterAnyInvoke", k) : k \in 0..MaxHooks}
  /\ hookLog = <<>>
  /\ hookIdx = 0
  /\ generator \in {"absent", "supplied"}
  /\ child = NoChild
  /\ preTarget = target
  /\ name \in ProjectNames
  /\ warnings = <<>>
  /\ UtilsAtRest

\* ------------------------------------------------------- Creator.create
\* creator.js:93-97, the catch block: the events of the run once the error
\* event has been emitted, and the error create() rejects with.
\* Variant: the catch block also emits 'done'.
CatchEvents_ThenDone(evs, err) == Append(Append(evs, ErrEv(err)), Ev("done"))
CatchEvents(evs, err) == Append(evs, ErrEv(err))
\* Variant: the catch block does not rethrow.
Rethrown_Swallowed(err) == None
Rethrown(err) == err

\* A step throws err after having emitted evs: control goes to the catch
\* block and the run is over.
Throw(evs, err) ==
  /\ events' = CatchEvents(evs, err)
  /\ raised' = err
  /\ thrown' = Rethrown(err)
  /\ pc' = "rejected"

\* creator.js:60-63: create(cliOptions, preset) is called; 'start' is emitted.
Create(opts, p) ==
  /\ pc = "idle"
  /\ cliOptions' = opts
  /\ presetParam' = p
  /\ events' = <<Ev("start")>>
  /\ raised' = None
  /\ thrown' = None
  /\ attached' = <<>>
  /\ decision' = None
  /\ fsLog' = <<>>
  /\ promptLog' = <<>>
  /\ consulted' = <<>>
  /\ hookLog' = <<>>
  /\ hookIdx' = 0
  /\ child' = NoChild
  /\ preTarget' = target
  /\ warnings' = <<>>
  /\ pc' = "resolve"
  /\ UNCHANGED <<preset, target, cwdConfig, afterInvokeCbs, afterAnyInvokeCbs,
                 generator, name, utilVars>>

\* Variant: the default flag is tested first.
PresetSource_DefaultFirst(opts) ==
  IF opts.default THEN "default"
  ELSE IF opts.preset # None THEN "named"
  ELSE IF opts.inlinePreset # None THEN "inline"
  ELSE "interactive"

\* creator.js:105-116 resolvePreset: the branch taken.
PresetSource(opts) ==
  IF opts.preset # None THEN "named"
  ELSE IF opts.inlinePreset # None THEN "inline"
  ELSE IF opts.default THEN "default"
  ELSE "interactive"

\* Variant: the resolved preset is not assigned to this.preset.
Attach_NotAssigned(p) ==
  /\ preset' = preset
  /\ attached' = attached
  /\ pc' = "validate"

\* creator.js:69: this.preset = preset; the run goes on to step 2.
Attach(p) ==
  /\ preset' = p
  /\ attached' = Append(attached, p)
  /\ pc' = "validate"

\* creator.js:66: a preset was passed to create(); resolvePreset is not called.
UseGivenPreset ==
  /\ pc = "resolve"
  /\ presetParam # NullPreset
  /\ Attach(presetParam)
  /\ UNCHANGED <<cliOptions, presetParam, decision, events, raised, thrown,
                 target, cwdConfig, fsLog, promptLog, consulted,
                 afterInvokeCbs, afterAnyInvokeCbs, hookLog, hookIdx,
                 generator, child, preTarget, name, warnings, utilVars>>

\* creator.js:453-470 loadPreset: the registry, then the configuration file of
\* the working directory; the result is a preset or NullPreset (not found).
\* Variant: the configuration file is read before the registry.
loadPreset_FileFirst(presetName, cfg) ==
  IF cfg.exists /\ presetName \in cfg.presets THEN SavedPreset(presetName)
  ELSE IF presetName \in DOMAIN getAvailablePresets THEN getAvailablePresets[presetName]
  ELSE NullPreset
loadPreset(presetName, cfg) ==
  IF presetName \in DOMAIN getAvailablePresets THEN getAvailablePresets[presetName]
  ELSE IF cfg.exists /\ presetName \in cfg.presets THEN SavedPreset(presetName)
  ELSE NullPreset

\* creator.js:469: the error loadPreset throws carries the requested name.
PresetNotFound(presetName) == "PresetNotFound: " \o presetName

\* creator.js:107-108: a named preset.
ResolveNamed ==
  /\ pc = "resolve"
  /\ presetParam = NullPreset
  /\ PresetSource(cliOptions) = "named"
  /\ consulted' = Append(consulted, "named")
  /\ LET p == loadPreset(cliOptions.preset, cwdConfig) IN
       IF p # NullPreset
       THEN Attach(p) /\ UNCHANGED <<events, raised, thrown>>
       ELSE Throw(events, PresetNotFound(cliOptions.preset))
            /\ UNCHANGED <<preset, attached>>
  /\ UNCHANGED <<cliOptions, presetParam, decision, target, cwdConfig,
                 fsLog, promptLog, afterInvokeCbs, afterAnyInvokeCbs, hookLog,
                 hookIdx, generator, child, preTarget, name, warnings, utilVars>>

\* creator.js:109-110: an inline payload.
ResolveInline ==
  /\ pc = "resolve"
  /\ presetParam = NullPreset
  /\ PresetSource(cliOptions) = "inline"
  /\ consulted' = Append(consulted, "inline")
  /\ IF JsonParses(cliOptions.inlinePreset)
     THEN Attach(JsonValue(cliOptions.inlinePreset)) /\ UNCHANGED <<events, raised, thrown>>
     ELSE Throw(events, "SyntaxError") /\ UNCHANGED <<preset, attached>>
  /\ UNCHANGED <<cliOptions, presetParam, decision, target, cwdConfig,
                 fsLog, promptLog, afterInvokeCbs, afterAnyInvokeCbs, hookLog,
                 hookIdx, generator, child, preTarget, name, warnings, utilVars>>

\* creator.js:111-112: the default flag.
ResolveDefault ==
  /\ pc = "resolve"
  /\ presetParam = NullPreset
  /\ PresetSource(cliOptions) = "default"
  /\ consulted' = Append(consulted, "default")
  /\ Attach(getDefaultPreset)
  /\ UNCHANGED <<cliOptions, presetParam, decision, events, raised, thrown,
                 target, cwdConfig, fsLog, promptLog, afterInvokeCbs,
                 afterAnyInvokeCbs, hookLog, hookIdx, generator, child,
                 preTarget, name, warnings, utilVars>>

\* creator.js:113-114, 122-152 interactivePresetSelection: the list prompt is
\* shown; it answers a registry key or '__manual__', or it rejects.
InteractivePresetSelection(answer) ==
  /\ pc = "resolve"
  /\ presetParam = NullPreset
  /\ PresetSource(cliOptions) = "interactive"
  /\ consulted' = Append(consulted, "interactive")
  /\ promptLog' = Append(promptLog, "preset")
  /\ CASE answer = "__manual__" ->
            pc' = "features" /\ UNCHANGED <<preset, attached, events, raised, thrown>>
       [] answer \in DOMAIN getAvailablePresets ->
            Attach(getAvailablePresets[answer]) /\ UNCHANGED <<events, raised, thrown>>
       [] OTHER ->
            Throw(events, "PromptError") /\ UNCHANGED <<preset, attached>>
  /\ UNCHANGED <<cliOptions, presetParam, decision, target, cwdConfig,
                 fsLog, afterInvokeCbs, afterAnyInvokeCbs, hookLog, hookIdx,
                 generator, child, preTarget, name, warnings, utilVars>>

\* creator.js:158-169, 182-202 collectFeatureSelections: the checkbox prompt
\* answers, or it rejects.
CollectFeatureSelections(ok) ==
  /\ pc = "features"
  /\ promptLog' = Append(promptLog, "features")
  /\ IF ok THEN pc' = "options" /\ UNCHANGED <<events, raised, thrown>>
     ELSE Throw(events, "PromptError")
  /\ UNCHANGED <<cliOptions, presetParam, preset, attached, decision, target, cwdConfig, fsLog, consulted,
                 afterInvokeCbs, afterAnyInvokeCbs, hookLog, hookIdx,
                 generator, child, preTarget, name, warnings, utilVars>>

\* creator.js:158-176 manualConfiguration: the preset built from the answers.
\* options stays {} and Object.assign puts packageManager at the top level.
manualConfiguration(pm) == MkPreset("manual", None, pm)

\* creator.js:172-175, 208-229 collectAdditionalOptions: the package-manager
\* prompt answers and the manual preset is returned and attached, or the
\* prompt rejects.
CollectAdditionalOptions(pm) ==
  /\ pc = "options"
  /\ promptLog' = Append(promptLog, "packageManager")
  /\ IF pm \in PackageManagers
     THEN Attach(manualConfiguration(pm)) /\ UNCHANGED <<events, raised, thrown>>
     ELSE Throw(events, "PromptError") /\ UNCHANGED <<preset, attached>>
  /\ UNCHANGED <<cliOptions, presetParam, decision,
                 target, cwdConfig, fsLog, consulted, afterInvokeCbs,
                 afterAnyInvokeCbs, hookLog, hookIdx, generator, child,
                 preTarget, name, warnings, utilVars>>

\* ------------------------------------------- validateTargetDirectory
\* Variant: the merge flag is not tested.
DirectoryAction_IgnoresMerge(exists, opts) ==
  IF ~exists THEN "proceed"
  ELSE IF opts.force THEN "remove"
  ELSE "prompt"

\* Variant: merge is tested before force.
DirectoryAction_MergeFirst(exists, opts) ==
  IF ~exists THEN "proceed"
  ELSE IF opts.merge THEN "merge"
  ELSE IF opts.force THEN "remove"
  ELSE "prompt"

\* creator.js:261-267: what is done with the target, from the existence check
\* and the flags.
DirectoryAction(exists, opts) ==
  IF ~exists THEN "proceed"
  ELSE IF opts.force THEN "remove"
  ELSE IF opts.merge THEN "merge"
  ELSE "prompt"

\* creator.js:258-267: fs.pathExists and the branch on force / merge.
ValidateTargetDirectory ==
  /\ pc = "validate"
  /\ LET a == DirectoryAction(target.exists, cliOptions) IN
       CASE a = "proceed" -> decision' = "absent" /\ pc' = "init"
         [] a = "remove" -> decision' = "force" /\ pc' = "remove"
         [] a = "merge" -> decision' = "merge" /\ pc' = "init"
         [] OTHER -> decision' = decision /\ pc' = "dirPrompt"
  /\ UNCHANGED <<cliOptions, presetParam, preset, attached, events,
                 raised, thrown, target, cwdConfig, fsLog, promptLog, consulted,
                 afterInvokeCbs, afterAnyInvokeCbs, hookLog, hookIdx,
                 generator, child, preTarget, name, warnings, utilVars>>

\* Variant: cancel does not throw.
ChoiceOutcome_CancelProceeds(action) ==
  IF action = "overwrite" THEN "remove" ELSE "proceed"

\* creator.js:269-273: what follows the answer of the prompt.
ChoiceOutcome(action) ==
  IF action = "cancel" THEN "throw"
  ELSE IF action = "overwrite" THEN "remove"
  ELSE "proceed"

\* creator.js:268-273, 283-298 promptDirectoryAction: the list prompt answers
\* overwrite, merge or cancel, or it rejects.
PromptDirectoryAction(answer) ==
  /\ pc = "dirPrompt"
  /\ promptLog' = Append(promptLog, "action")
  /\ IF answer \in {"overwrite", "merge", "cancel"}
     THEN /\ decision' = answer
          /\ CASE ChoiceOutcome(answer) = "throw" -> Throw(events, "UserCancel")
               [] ChoiceOutcome(answer) = "remove" ->
                    pc' = "remove" /\ UNCHANGED <<events, raised, thrown>>
               [] OTHER ->
                    pc' = "init" /\ UNCHANGED <<events, raised, thrown>>
     ELSE decision' = decision /\ Throw(events, "PromptError")
  /\ UNCHANGED <<cliOptions, presetParam, preset, attached, target,
                 cwdConfig, fsLog, consulted, afterInvokeCbs,
                 afterAnyInvokeCbs, hookLog, hookIdx, generator, child,
                 preTarget, name, warnings, utilVars>>

\* creator.js:264, 272: fs.remove(targetDir).  It removes the tree, or it
\* fails having removed any part of it.
RemoveTarget(ok, left) ==
  /\ pc = "remove"
  /\ fsLog' = Append(fsLog, "remove")
  /\ IF ok
     THEN /\ target' = NoTree
          /\ pc' = "init"
          /\ UNCHANGED <<events, raised, thrown>>
     ELSE /\ left \subseteq target.files
          /\ target' = [exists |-> TRUE, files |-> left,
                        pkg |-> IF "package.json" \in left THEN target.pkg ELSE None,
                        rc |-> IF ".frontendrc.json" \in left THEN target.rc ELSE NoRc]
          /\ Throw(events, "EACCES")
  /\ UNCHANGED <<cliOptions, presetParam, preset, attached, decision,
                 cwdConfig, promptLog, consulted, afterInvokeCbs,
                 afterAnyInvokeCbs, hookLog, hookIdx, generator, child,
                 preTarget, name, warnings, utilVars>>

\* ------------------------------------------------------ initializeProject
\* creator.js:305-310: 'project-init' is emitted, then fs.ensureDir.
InitializeProject(ok) ==
  /\ pc = "init"
  /\ fsLog' = Append(fsLog, "ensureDir")
  /\ IF ok
     THEN /\ target' = [target EXCEPT !.exists = TRUE]
          /\ events' = Append(events, Ev("project-init"))
          /\ pc' = "packageJson"
          /\ UNCHANGED <<raised, thrown>>
     ELSE /\ Throw(Append(events, Ev("project-init")), "EACCES")
          /\ UNCHANGED target
  /\ UNCHANGED <<cliOptions, presetParam, preset, attached, decision,
                 cwdConfig, promptLog, consulted, afterInvokeCbs,
                 afterAnyInvokeCbs, hookLog, hookIdx, generator, child,
                 preTarget, name, warnings, utilVars>>

\* fileSystem.js:39-44 writeFile into the target directory; written is the
\* directory with the content of the file in place.
WriteFile(file, written, ok, next) ==
  /\ fsLog' = Append(fsLog, file)
  /\ IF ok
     THEN /\ target' = [written EXCEPT !.exists = TRUE, !.files = @ \cup {file}]
          /\ pc' = next
          /\ UNCHANGED <<events, raised, thrown>>
     ELSE /\ Throw(events, "EACCES")
          /\ UNCHANGED target

\* creator.js:313, 323-344 initializePackageJson.
InitializePackageJson(ok) ==
  /\ pc = "packageJson"
  /\ WriteFile("package.json", [target EXCEPT !.pkg = name], ok,
               "saveConfiguration")
  /\ UNCHANGED <<cliOptions, presetParam, preset, attached, decision,
                 cwdConfig, promptLog, consulted, afterInvokeCbs,
                 afterAnyInvokeCbs, hookLog, hookIdx, generator, child,
                 preTarget, name, warnings, utilVars>>

\* creator.js:316, 350-361 saveConfiguration.
SaveConfiguration(ok) ==
  /\ pc = "saveConfiguration"
  /\ WriteFile(".frontendrc.json",
               [target EXCEPT !.rc = configData(preset, name)], ok, "generate")
  /\ UNCHANGED <<cliOptions, presetParam, preset, attached, decision,
                 cwdConfig, promptLog, consulted, afterInvokeCbs,
                 afterAnyInvokeCbs, hookLog, hookIdx, generator, child,
                 preTarget, name, warnings, utilVars>>

\* creator.js:79: await this.generateProjectFiles(cliOptions).  The class
\* defines no such method (changelog.md:71), so the call throws a TypeError
\* unless a subclass or the caller has supplied one; a supplied method
\* resolves or rejects.  Nothing in create() emits 'generate-files'.
GenerateProjectFiles(ok) ==
  /\ pc = "generate"
  /\ CASE generator = "absent" -> Throw(events, "TypeError")
       [] generator = "supplied" /\ ~ok -> Throw(events, "GenerateFailed")
       [] OTHER -> pc' = "install" /\ UNCHANGED <<events, raised, thrown>>
  /\ UNCHANGED <<cliOptions, presetParam, preset, attached, decision,
                 target, cwdConfig, fsLog, promptLog, consulted,
                 afterInvokeCbs, afterAnyInvokeCbs, hookLog, hookIdx,
                 generator, child, preTarget, name, warnings, utilVars>>

\* ---------------------------------------------------- installDependencies
\* creator.js:374: this.preset.options?.packageManager || 'npm'.
PresetPackageManager(p) == IF p.options = None THEN "npm" ELSE p.options

\* PackageManager.js:109: configs[this.packageManager] || configs.npm, and the
\* command of that descriptor.
ManagerCommand(pm) == IF pm \in PackageManagers THEN pm ELSE "npm"

\* creator.js:368-377, PackageManager.js:118-156, 424-462: 'deps-install' is
\* emitted, the adapter is built, install() -> installAll() -> runCommand():
\* findExecutable finds the command or not; found, the child is spawned in
\* the target directory.
InstallDependencies(found) ==
  /\ pc = "install"
  /\ LET cmd == ManagerCommand(PresetPackageManager(preset)) IN
       IF found
       THEN /\ child' = [command |-> cmd, cwd |-> "target", status |-> "running"]
            /\ events' = Append(events, Ev("deps-install"))
            /\ pc' = "child"
            /\ UNCHANGED <<raised, thrown>>
       ELSE /\ Throw(Append(events, Ev("deps-install")), "ExecutableNotFound")
            /\ child' = [command |-> cmd, cwd |-> "target", status |-> "notFound"]
  /\ UNCHANGED <<cliOptions, presetParam, preset, attached, decision,
                 target, cwdConfig, fsLog, promptLog, consulted,
                 afterInvokeCbs, afterAnyInvokeCbs, hookLog, hookIdx,
                 generator, preTarget, name, warnings, utilVars>>

\* Variant: the close handler resolves whatever the exit code.
ChildClose_IgnoresExitCode(code) ==
  /\ pc = "child"
  /\ child' = [child EXCEPT !.status = IF code = 0 THEN "exit0" ELSE "exitNonZero"]
  /\ pc' = "hooks"
  /\ UNCHANGED <<cliOptions, presetParam, preset, attached, decision, events,
                 raised, thrown, target, cwdConfig, fsLog, promptLog,
                 consulted, afterInvokeCbs, afterAnyInvokeCbs, hookLog,
                 hookIdx, generator, preTarget, name, warnings, utilVars>>

\* Variant: a non-zero exit code settles nothing; the run stays pending.
ChildClose_NonZeroPending(code) ==
  /\ pc = "child"
  /\ child' = [child EXCEPT !.status = IF code = 0 THEN "exit0" ELSE "exitNonZero"]
  /\ pc' = IF code = 0 THEN "hooks" ELSE "pending"
  /\ UNCHANGED <<cliOptions, presetParam, preset, attached, decision, events,
                 raised, thrown, target, cwdConfig, fsLog, promptLog,
                 consulted, afterInvokeCbs, afterAnyInvokeCbs, hookLog,
                 hookIdx, generator, preTarget, name, warnings, utilVars>>

\* PackageManager.js:477-484: the child closes with an exit code.
ChildClose(code) ==
  /\ pc = "child"
  /\ child' = [child EXCEPT !.status = IF code = 0 THEN "exit0" ELSE "exitNonZero"]
  /\ IF code = 0
     THEN pc' = "hooks" /\ UNCHANGED <<events, raised, thrown>>
     ELSE Throw(events, "CommandFailed")
  /\ UNCHANGED <<cliOptions, presetParam, preset, attached, decision,
                 target, cwdConfig, fsLog, promptLog, consulted,
                 afterInvokeCbs, afterAnyInvokeCbs, hookLog, hookIdx,
                 generator, preTarget, name, warnings, utilVars>>

\* PackageManager.js:486-489: the child could not be launched.
ChildError ==
  /\ pc = "child"
  /\ child' = [child EXCEPT !.status = "launchError"]
  /\ Throw(events, "LaunchError")
  /\ UNCHANGED <<cliOptions, presetParam, preset, attached, decision,
                 target, cwdConfig, fsLog, promptLog, consulted,
                 afterInvokeCbs, afterAnyInvokeCbs, hookLog, hookIdx,
                 generator, preTarget, name, warnings, utilVars>>

\* ----------------------------------------------------- runCompletionHooks
\* Variant: the after-any callbacks are run first.
CompletionCallbacks_AnyFirst == afterAnyInvokeCbs \o afterInvokeCbs
\* creator.js:390-396: the callbacks in the order they are run.
CompletionCallbacks == afterInvokeCbs \o afterAnyInvokeCbs

\* creator.js:386-388: 'completion-hooks' is emitted.
RunCompletionHooks ==
  /\ pc = "hooks"
  /\ events' = Append(events, Ev("completion-hooks"))
  /\ hookIdx' = 1
  /\ pc' = IF CompletionCallbacks = <<>> THEN "git" ELSE "callback"
  /\ UNCHANGED <<cliOptions, presetParam, preset, attached, decision,
                 raised, thrown, target, cwdConfig, fsLog, promptLog, consulted,
                 afterInvokeCbs, afterAnyInvokeCbs, hookLog, generator,
                 child, preTarget, name, warnings, utilVars>>

\* creator.js:390-396: await cb() for the next callback.
RunCallback(ok) ==
  /\ pc = "callback"
  /\ hookLog' = Append(hookLog, CompletionCallbacks[hookIdx])
  /\ IF ok
     THEN /\ hookIdx' = hookIdx + 1
          /\ pc' = IF hookIdx = Len(CompletionCallbacks) THEN "git" ELSE "callback"
          /\ UNCHANGED <<events, raised, thrown>>
     ELSE /\ Throw(events, "HookFailed")
          /\ UNCHANGED hookIdx
  /\ UNCHANGED <<cliOptions, presetParam, preset, attached, decision,
                 target, cwdConfig, fsLog, promptLog, consulted,
                 afterInvokeCbs, afterAnyInvokeCbs, generator, child,
                 preTarget, name, warnings, utilVars>>

\* ---------------------------------------------------------- initializeGit
\* creator.js:404-410: nothing when cliOptions.git === false, else 'git-init'.
InitializeGit ==
  /\ pc = "git"
  /\ IF cliOptions.git = FALSE
     THEN pc' = "finish" /\ UNCHANGED events
     ELSE pc' = "gitRun" /\ events' = Append(events, Ev("git-init"))
  /\ UNCHANGED <<cliOptions, presetParam, preset, attached, decision,
                 raised, thrown, target, cwdConfig, fsLog, promptLog, consulted,
                 afterInvokeCbs, afterAnyInvokeCbs, hookLog, hookIdx,
                 generator, child, preTarget, name, warnings, utilVars>>

\* Variant: the catch block logs the warning and rethrows.
GitFailure_Rethrows ==
  /\ warnings' = Append(warnings, "git")
  /\ Throw(events, "GitFailed")
\* creator.js:420-422: the catch block of initializeGit logs a warning and
\* returns.
GitFailure ==
  /\ warnings' = Append(warnings, "git")
  /\ pc' = "finish"
  /\ UNCHANGED <<events, raised, thrown>>

\* creator.js:412-422: the require of the exec helper and git init, add and
\* commit run inside try/catch; a failure of any of them is logged as a
\* warning and swallowed.
GitRun(ok) ==
  /\ pc = "gitRun"
  /\ IF ok
     THEN /\ target' = [target EXCEPT !.files = @ \cup {".git"}]
          /\ pc' = "finish"
          /\ UNCHANGED <<warnings, events, raised, thrown>>
     ELSE /\ GitFailure
          /\ UNCHANGED target
  /\ UNCHANGED <<cliOptions, presetParam, preset, attached, decision,
                 cwdConfig, fsLog, promptLog, consulted,
                 afterInvokeCbs, afterAnyInvokeCbs, hookLog, hookIdx,
                 generator, child, preTarget, name, utilVars>>

\* creator.js:90-91: 'done' is emitted and create() resolves.
Done ==
  /\ pc = "finish"
  /\ events' = Append(events, Ev("done"))
  /\ pc' = "resolved"
  /\ UNCHANGED <<cliOptions, presetParam, preset, attached, decision,
                 raised, thrown, target, cwdConfig, fsLog, promptLog, consulted,
                 afterInvokeCbs, afterAnyInvokeCbs, hookLog, hookIdx,
                 generator, child, preTarget, name, warnings, utilVars>>

\* ------------------------------------------------------------------ Next
Next ==
  \/ pc = "idle" /\ \E c \in Calls : Create(c[1], c[2])
  \/ UseGivenPreset
  \/ ResolveNamed
  \/ ResolveInline
  \/ ResolveDefault
  \/ \E a \in {BuiltinKey, "__manual__", "reject"} : InteractivePresetSelection(a)
  \/ \E ok \in BOOLEAN : CollectFeatureSelections(ok)
  \/ \E pm \in PackageManagers \cup {"reject"} : CollectAdditionalOptions(pm)
  \/ ValidateTargetDirectory
  \/ \E a \in {"overwrite", "merge", "cancel", "reject"} : PromptDirectoryAction(a)
  \/ \E ok \in BOOLEAN, left \in SUBSET target.files : RemoveTarget(ok, left)
  \/ \E ok \in BOOLEAN : InitializeProject(ok)
  \/ \E ok \in BOOLEAN : InitializePackageJson(ok)
  \/ \E ok \in BOOLEAN : SaveConfiguration(ok)
  \/ \E ok \in BOOLEAN : GenerateProjectFiles(ok)
  \/ \E found \in BOOLEAN : InstallDependencies(found)
  \/ \E code \in {0, 1} : ChildClose(code)
  \/ ChildError
  \/ RunCompletionHooks
  \/ \E ok \in BOOLEAN : RunCallback(ok)
  \/ InitializeGit
  \/ \E ok \in BOOLEAN : GitRun(ok)
  \/ Done

Spec == Init /\ [][Next]_vars

\* Every awaited call settles: a run that can take a step takes one.  The
\* project name changes no branch of the chain and a named lookup finds its
\* name or not with the configuration file present, so the fair runs start
\* with one name and the file present.
FairInit == Init /\ name = "my-app" /\ cwdConfig.exists
FairSpec == FairInit /\ [][Next]_vars /\ WF_vars(Next)

\* ================================================================ claims
PhaseOrder == <<"start", "project-init", "generate-files", "deps-install",
                "completion-hooks", "git-init", "done">>
Rank(e) == CHOOSE i \in 1..Len(PhaseOrder) : PhaseOrder[i] = e
Emitted == Range(Phases(events))
Terminal == pc \in {"resolved", "rejected"}
\* The failures a collaborator of create() can cause.
CollaboratorFailures ==
  {PresetNotFound(n) : n \in PresetNames} \cup
  {"SyntaxError", "PromptError", "UserCancel", "EACCES",
   "GenerateFailed", "ExecutableNotFound", "LaunchError", "CommandFailed",
   "HookFailed"}

\* C1: a run of create() that resolves has emitted exactly start,
\* project-init, generate-files, deps-install, completion-hooks, done when
\* cliOptions.git === false, and the same with git-init before done otherwise.
C1_SuccessfulRunPhases ==
  pc = "resolved" =>
    Phases(events) =
      IF cliOptions.git = FALSE
      THEN <<"start", "project-init", "generate-files", "deps-install",
             "completion-hooks", "done">>
      ELSE PhaseOrder

\* C2: when no collaborator fails, the run passes the file-generation step,
\* emits generate-files and later done, emits no error and resolves.
C2_AllSucceedReachesDone ==
  (Terminal /\ raised \notin CollaboratorFailures) =>
    /\ pc = "resolved"
    /\ "error" \notin Emitted
    /\ \E i, j \in 1..Len(events) :
         /\ i < j
         /\ events[i].event = "generate-files"
         /\ events[j].event = "done"

\* C3: in every run the phases are emitted at most once each and in the
\* order of PhaseOrder; error, when emitted, is the last event of the run and
\* is never emitted in a run that has emitted done.
C3_PhasesOrderedOnce ==
  LET ph == Phases(events) IN
    /\ \A i \in 1..Len(ph) : ph[i] \in Range(PhaseOrder) \cup {"error"}
    /\ \A i, j \in 1..Len(ph) :
         (i < j /\ ph[i] # "error" /\ ph[j] # "error") => Rank(ph[i]) < Rank(ph[j])
    /\ \A i \in 1..Len(ph) : ph[i] = "error" => i = Len(ph)
    /\ ~("error" \in Emitted /\ "done" \in Emitted)

C3_Witness ==
  /\ pc = "rejected"
  /\ Phases(events) = <<"start", "project-init", "deps-install",
                        "completion-hooks", "error">>

\* C4: a step of create() has thrown exactly when the run is rejected; then
\* exactly one error event has been emitted, it is the last event and carries
\* the error the step threw, create() rejects with that same error, and no
\* further step is taken.
C4_ErrorEmittedOnceAndRethrown ==
  /\ (raised # None) <=> (pc = "rejected")
  /\ raised = None => (thrown = None /\ "error" \notin Emitted)
  /\ raised # None =>
       /\ thrown = raised
       /\ events[Len(events)] = ErrEv(raised)
       /\ Cardinality({i \in 1..Len(events) : events[i].event = "error"}) = 1
       /\ ~ENABLED Next

C4_Witness ==
  /\ raised = "HookFailed"
  /\ pc = "rejected"
  /\ Len(hookLog) = 1

\* C5: when the dependency installation fails (executable not found, launch
\* error, non-zero exit), completion-hooks, git-init and done are not
\* emitted, no registered callback is started and create() rejects with the
\* failure of the package-manager command.
C5_InstallFailureStopsRun ==
  child.status \in {"notFound", "launchError", "exitNonZero"} =>
    /\ pc = "rejected"
    /\ thrown = CASE child.status = "notFound" -> "ExecutableNotFound"
                  [] child.status = "launchError" -> "LaunchError"
                  [] OTHER -> "CommandFailed"
    /\ Emitted \cap {"completion-hooks", "git-init", "done"} = {}
    /\ "deps-install" \in Emitted
    /\ hookLog = <<>>

C5_Witness ==
  /\ child.status = "exitNonZero"
  /\ pc = "rejected"
  /\ CompletionCallbacks # <<>>

\* C6: at most one preset is attached in a run; it is attached, and is
\* this.preset, before the first mutating filesystem operation is issued; a
\* run that resolves has attached exactly one; a run rejected before a preset
\* was attached has issued no mutating filesystem operation.
C6_PresetResolvedBeforeMutation ==
  /\ Len(attached) <= 1
  /\ fsLog # <<>> => (Len(attached) = 1 /\ preset = attached[1])
  /\ pc = "resolved" => (Len(attached) = 1 /\ preset = attached[1])
  /\ (pc = "rejected" /\ attached = <<>>) => (fsLog = <<>> /\ target = preTarget)

C6_Witness ==
  /\ attached = <<manualConfiguration("yarn")>>
  /\ fsLog = <<"remove", "ensureDir", "package.json">>

\* validateTargetDirectory has returned or thrown with its decision taken.
ValidateReturned == decision # None /\ pc # "remove"
PromptedForDirectory == "action" \in Range(promptLog)

\* C7: no mutating filesystem operation is issued before
\* validateTargetDirectory has decided; when the answer of the prompt is
\* cancel the run is rejected with the user-abort error, its last event is
\* error, and the target is as it was: no operation was issued.
C7_NoMutationBeforeDecision ==
  /\ fsLog # <<>> => decision \in {"absent", "force", "merge", "overwrite"}
  /\ decision = None => target = preTarget
  /\ decision = "cancel" =>
       /\ pc = "rejected"
       /\ thrown = "UserCancel"
       /\ events[Len(events)] = ErrEv("UserCancel")
       /\ fsLog = <<>>
       /\ target = preTarget

C7_Witness ==
  /\ decision = "cancel"
  /\ preTarget.files = {"old.txt", "package.json", ".frontendrc.json"}
  /\ pc = "rejected"

\* C8: the directory prompt is shown if and only if the target exists and
\* neither force nor merge is set; for a target that does not exist
\* validateTargetDirectory returns without a prompt and without a mutation.
C8_PromptIffExistsAndNoFlag ==
  /\ PromptedForDirectory =>
       (preTarget.exists /\ ~cliOptions.force /\ ~cliOptions.merge)
  /\ ValidateReturned =>
       (PromptedForDirectory <=>
          (preTarget.exists /\ ~cliOptions.force /\ ~cliOptions.merge))
  /\ (ValidateReturned /\ ~preTarget.exists) =>
       /\ ~PromptedForDirectory
       /\ pc = "init" => (fsLog = <<>> /\ target = preTarget)

C8_Witness ==
  /\ PromptedForDirectory
  /\ decision = "merge"
  /\ pc = "init"

\* C9 as claimed: after validateTargetDirectory the tree has been removed
\* exactly when the target existed and force is set or the answer was
\* overwrite, and with the merge flag or the answer merge nothing is removed
\* and no file that existed before the call is missing.
C9_MergeNeverRemoves ==
  ValidateReturned =>
    /\ "remove" \in Range(fsLog) <=>
         (preTarget.exists /\ (cliOptions.force \/ decision = "overwrite"))
    /\ (cliOptions.merge \/ decision = "merge") =>
         ("remove" \notin Range(fsLog) /\ preTarget.files \subseteq target.files)

\* C9 amended: as claimed, the merge part only when force is not set; the
\* removal is the first mutating operation and precedes project-init.
C9_MergeWithoutForceNeverRemoves ==
  /\ ValidateReturned =>
       /\ "remove" \in Range(fsLog) <=>
            (preTarget.exists /\ (cliOptions.force \/ decision = "overwrite"))
       /\ (~cliOptions.force /\ (cliOptions.merge \/ decision = "merge")) =>
            ("remove" \notin Range(fsLog) /\ preTarget.files \subseteq target.files)
  /\ \A i \in 1..Len(fsLog) : fsLog[i] = "remove" => i = 1
  /\ (fsLog # <<>> /\ fsLog[Len(fsLog)] = "remove") => "project-init" \notin Emitted

C9_Witness ==
  /\ preTarget.files = {"old.txt", "package.json", ".frontendrc.json"}
  /\ cliOptions.merge /\ ~cliOptions.force
  /\ fsLog = <<"ensureDir", "package.json", ".frontendrc.json">>
  /\ target.files = preTarget.files

\* C10: resolvePreset consults exactly one source, the first present of
\* named preset, inline payload, default flag, interactive collection; no
\* preset prompt is shown when one of the first three is present.
C10_PresetSourcePriority ==
  /\ Len(consulted) <= 1
  /\ (presetParam = NullPreset /\ pc \notin {"idle", "resolve"}) => Len(consulted) = 1
  /\ consulted # <<>> =>
       consulted[1] =
         IF cliOptions.preset # None THEN "named"
         ELSE IF cliOptions.inlinePreset # None THEN "inline"
         ELSE IF cliOptions.default THEN "default"
         ELSE "interactive"
  /\ (cliOptions.preset # None \/ cliOptions.inlinePreset # None \/ cliOptions.default) =>
       Range(promptLog) \cap {"preset", "features", "packageManager"} = {}
  /\ (consulted = <<"inline">> /\ attached # <<>>) => preset = JsonValue(cliOptions.inlinePreset)
  /\ (consulted = <<"default">> /\ attached # <<>>) => preset = getDefaultPreset

C10_Witness ==
  /\ consulted = <<"inline">>
  /\ cliOptions.preset = None /\ cliOptions.inlinePreset = "{yarn}" /\ cliOptions.default
  /\ preset.name = "inline"
  /\ pc = "validate"

savedPresets(json) == IF "presets" \in DOMAIN json THEN json.presets ELSE {}
\* creator.js:461-463: the object json as the configuration file of the
\* working directory of a lookup.
ConfigFile(json) == [exists |-> TRUE, presets |-> savedPresets(json)]

\* C12: once a run has written its metadata file, a named lookup that reads
\* that file as the configuration file of the working directory, by the name
\* of the persisted preset or by the project name, returns the persisted
\* preset.
C12_SavedMetadataLoadsByName ==
  target.rc = configData(preset, name) =>
    \E n \in {target.rc.preset.name, target.rc.name} :
      loadPreset(n, ConfigFile(target.rc)) = target.rc.preset

\* The filesystem operations of initializeProject issued in this run.
InitLog == SelectSeq(fsLog, LAMBDA op : op # "remove")

\* C13: initializeProject emits project-init and issues ensureDir, the write
\* of package.json and the write of .frontendrc.json in that order; the
\* written package.json carries the project name, the written metadata the
\* attached preset, the project name and the timestamp of the run; when the
\* write of package.json fails the run is over and the metadata file is as it
\* was before initializeProject.
C13_InitializeProjectOrder ==
  /\ InitLog = SubSeq(<<"ensureDir", "package.json", ".frontendrc.json">>, 1, Len(InitLog))
  /\ "project-init" \in Emitted <=> InitLog # <<>>
  /\ ((Len(InitLog) = 2 /\ raised # "EACCES") \/ Len(InitLog) = 3) =>
       /\ "package.json" \in target.files
       /\ target.pkg = name
  /\ (Len(InitLog) = 3 /\ raised # "EACCES") =>
       /\ ".frontendrc.json" \in target.files
       /\ attached # <<>>
       /\ target.rc = [preset |-> attached[1], name |-> name, created |-> "now"]
  /\ (Len(InitLog) = 2 /\ raised = "EACCES") =>
       /\ pc = "rejected"
       /\ target.rc = IF "remove" \in Range(fsLog) THEN NoRc ELSE preTarget.rc

C13_Witness ==
  /\ pc = "generate"
  /\ fsLog = <<"ensureDir", "package.json", ".frontendrc.json">>
  /\ name = "web"
  /\ target.pkg = "web"
  /\ target.rc.preset = manualConfiguration("pnpm")
  /\ preTarget.pkg = "old-app"

\* The package manager a preset chooses: under options, or at the top level
\* where manualConfiguration puts the answer of its prompt, npm when it
\* chooses none.
ChosenPackageManager(p) ==
  IF p.options # None THEN p.options
  ELSE IF p.packageManager # None THEN p.packageManager
  ELSE "npm"

\* C14: the command run for deps-install is the package manager the attached
\* preset chooses, however the preset was resolved, and it runs in the target
\* directory.
C14_InstallUsesChosenPackageManager ==
  child.command # None =>
    /\ child.command = ChosenPackageManager(preset)
    /\ child.cwd = "target"

\* C15: with --package-manager given, the command run for deps-install is
\* the package manager named by the option.
C15_PackageManagerOptionHonoured ==
  (cliOptions.packageManager # None /\ child.command # None) =>
    child.command = cliOptions.packageManager

\* C16: with --yes given, no prompt is shown in the run and the attached
\* preset is the default preset.
C16_YesSkipsPrompts ==
  cliOptions.yes =>
    /\ promptLog = <<>>
    /\ attached # <<>> => preset = getDefaultPreset

C18_GitFailureIsWarning ==
  /\ pc \in {"gitRun", "finish", "resolved"} =>
       ("git-init" \in Emitted <=> cliOptions.git # FALSE)
  /\ "git-init" \in Emitted => cliOptions.git # FALSE
  /\ warnings # <<>> =>
       /\ warnings = <<"git">>
       /\ "git-init" \in Emitted
       /\ pc \in {"finish", "resolved"}
       /\ raised = None /\ thrown = None
       /\ "error" \notin Emitted
       /\ pc = "finish" => ENABLED Done
  /\ pc = "resolved" =>
       /\ events[Len(events)] = Ev("done")
       /\ thrown = None

C18_Witness ==
  /\ warnings = <<"git">>
  /\ pc = "resolved"
  /\ ".git" \notin target.files
  /\ Phases(events) = <<"start", "project-init", "deps-install",
                        "completion-hooks", "git-init", "done">>

\* C19: when create() rejects, the target directory is as it was when the run
\* started: what the run removed, created or wrote has been rolled back.
C19_FailureRollsBack ==
  pc = "rejected" => target = preTarget

\* C20: a run that has started reaches resolved or rejected; resolved with
\* done emitted, no error emitted and nothing thrown, rejected with error
\* emitted, done not emitted and the error thrown; and a run that has reached
\* one of them stays there.
C20_RunReachesOneOutcome ==
  /\ (pc # "idle") ~> Terminal
  /\ [](pc = "resolved" =>
          ("done" \in Emitted /\ "error" \notin Emitted /\ thrown = None))
  /\ [](pc = "rejected" =>
          ("error" \in Emitted /\ "done" \notin Emitted /\ thrown # None))
  /\ [][(pc \in {"resolved", "rejected"}) => (pc' = pc)]_vars

C20_Witness ==
  /\ pc = "resolved"
  /\ "remove" \in Range(fsLog)
  /\ Len(hookLog) = 2
  /\ "done" \in Emitted

\* ===================================================== the create command
\* createProject of lib/commands/create.js.  A project name is the sequence
\* of its characters.
MaxNameLength == 214    \* create.js:188
Lower == <<"a", "b", "c", "d", "e", "f", "g", "h", "i", "j", "k", "l", "m",
           "n", "o", "p", "q", "r", "s", "t", "u", "v", "w", "x", "y", "z">>
Upper == <<"A", "B", "C", "D", "E", "F", "G", "H", "I", "J", "K", "L", "M",
           "N", "O", "P", "Q", "R", "S", "T", "U", "V", "W", "X", "Y", "Z">>
Digits == {"0", "1", "2", "3", "4", "5", "6", "7", "8", "9"}
\* create.js:193: the class [a-z0-9-._~] of packageNameRegex.
PackageNameChars == Range(Lower) \cup Digits \cup {"-", ".", "_", "~"}

\* String.prototype.toLowerCase (create.js:200, 206).
toLowerCase(s) ==
  [i \in 1..Len(s) |->
     IF s[i] \in Range(Upper)
     THEN Lower[CHOOSE k \in 1..Len(Upper) : Upper[k] = s[i]]
     ELSE s[i]]

\* create.js:199 reservedNames and create.js:205 nodeCoreModules.
reservedNames ==
  {<<"n", "o", "d", "e", "_", "m", "o", "d", "u", "l", "e", "s">>,
   <<".", "g", "i", "t">>, <<".", "s", "v", "n">>, <<".", "h", "g">>}
nodeCoreModules ==
  {<<"h", "t", "t", "p">>, <<"h", "t", "t", "p", "s">>,
   <<"q", "u", "e", "r", "y", "s", "t", "r", "i", "n", "g">>,
   <<"p", "a", "t", "h">>, <<"f", "s">>, <<"o", "s">>}

\* Variant: the core-module names are not checked.
validateProjectName_NoCoreModules(n) ==
  IF Len(n) = 0 THEN "EmptyName"
  ELSE IF Len(n) > MaxNameLength THEN "NameTooLong"
  ELSE IF \E i \in 1..Len(n) : n[i] \notin PackageNameChars THEN "InvalidCharacters"
  ELSE IF toLowerCase(n) \in reservedNames THEN "ReservedName"
  ELSE None
\* create.js:181-209 validateProjectName: the error it throws, None when it
\* returns.
validateProjectName(n) ==
  IF Len(n) = 0 THEN "EmptyName"
  ELSE IF Len(n) > MaxNameLength THEN "NameTooLong"
  ELSE IF \E i \in 1..Len(n) : n[i] \notin PackageNameChars THEN "InvalidCharacters"
  ELSE IF toLowerCase(n) \in reservedNames THEN "ReservedName"
  ELSE IF toLowerCase(n) \in nodeCoreModules THEN "CoreModuleName"
  ELSE None

\* create.js:216-229 parseCliOptions: the error it throws, None when it
\* returns.
parseCliOptions(inline) ==
  IF inline # None /\ ~JsonParses(inline) THEN "InvalidInlineJson" ELSE None

\* The working directory of the process, as the sequence of its segments.
Cwd == <<"home", "work">>
\* create.js:149-164 determineProjectContext without a path option: the
\* working directory for '.', else path.resolve(cwd, projectName), where the
\* segment '..' names the parent.
determineProjectContext(n) ==
  IF n = <<".">> THEN Cwd
  ELSE IF n = <<".", ".">> THEN SubSeq(Cwd, 1, Len(Cwd) - 1)
  ELSE Append(Cwd, n)

\* k times the letter a.
Repeat(k) == [i \in 1..k |-> "a"]
\* The names createProject is called with.
NameInputs ==
  {<<>>, <<"m", "y", "-", "a", "p", "p">>, <<"m", "y", " ", "a", "p", "p">>,
   <<"w", "e", "b">>, <<"a", "_", "b", "~", "c", ".", "1">>,
   <<"A", "p", "p">>, <<"F", "S">>, <<"f", "s">>, <<"f", "s", "2">>,
   <<"o", "s">>, <<"p", "a", "t", "h">>, <<"h", "t", "t", "p">>,
   <<"h", "t", "t", "p", "s">>, <<".", "g", "i", "t">>, <<".", "h", "g">>,
   <<"n", "o", "d", "e", "_", "m", "o", "d", "u", "l", "e", "s">>,
   <<"x", "/", "y">>, <<"@", "s">>, <<".">>, <<".", ".">>,
   Repeat(MaxNameLength), Repeat(MaxNameLength + 1)}

\* create.js:61-75: createProject validates the name, parses the options and
\* determines the target path; a throw goes to its catch block, which logs
\* and exits with code 1 (create.js:91-104).
CreateProject(n, inline) ==
  /\ cli.phase = "idle"
  /\ LET e == IF validateProjectName(n) # None THEN validateProjectName(n)
              ELSE parseCliOptions(inline)
     IN cli' = [phase |-> IF e = None THEN "modules" ELSE "exited",
                projectName |-> n, inlinePreset |-> inline, error |-> e,
                context |-> IF e = None THEN determineProjectContext(n) ELSE <<>>,
                creator |-> FALSE, fsAccess |-> FALSE,
                exit |-> IF e = None THEN None ELSE "1"]
  /\ UNCHANGED <<creatorVars, logger, adapter, call, resolver>>

\* create.js:75-84: the prompt modules are loaded, the Creator is constructed,
\* the listeners are set and creator.create is called.
ConstructCreator ==
  /\ cli.phase = "modules"
  /\ cli' = [cli EXCEPT !.phase = "creating", !.creator = TRUE]
  /\ UNCHANGED <<creatorVars, logger, adapter, call, resolver>>

\* create.js:84-104: creator.create, which reads and writes the filesystem,
\* resolves, or rejects and the catch block exits with code 1.
CreatorSettles(ok) ==
  /\ cli.phase = "creating"
  /\ cli' = IF ok THEN [cli EXCEPT !.phase = "returned", !.fsAccess = TRUE]
            ELSE [cli EXCEPT !.phase = "exited", !.fsAccess = TRUE,
                             !.error = "CreationFailed", !.exit = "1"]
  /\ UNCHANGED <<creatorVars, logger, adapter, call, resolver>>

\* A Creator that is not running.
CreatorAtRest ==
  /\ pc = "idle"
  /\ cliOptions = NoOptions
  /\ presetParam = NullPreset
  /\ preset = NullPreset
  /\ attached = <<>>
  /\ decision = None
  /\ events = <<>>
  /\ raised = None
  /\ thrown = None
  /\ target = NoTree
  /\ cwdConfig = [exists |-> FALSE, presets |-> {}]
  /\ fsLog = <<>>
  /\ promptLog = <<>>
  /\ consulted = <<>>
  /\ afterInvokeCbs = <<>>
  /\ afterAnyInvokeCbs = <<>>
  /\ hookLog = <<>>
  /\ hookIdx = 0
  /\ generator = "absent"
  /\ child = NoChild
  /\ preTarget = NoTree
  /\ name = "my-app"
  /\ warnings = <<>>

CommandInit == CreatorAtRest /\ UtilsAtRest
CommandNext ==
  \/ \E n \in NameInputs, inline \in {None} \cup InlinePayloads : CreateProject(n, inline)
  \/ ConstructCreator
  \/ \E ok \in BOOLEAN : CreatorSettles(ok)
CommandSpec == CommandInit /\ [][CommandNext]_vars

\* The name of C21's scenarios.
MyApp == <<"m", "y", " ", "a", "p", "p">>

\* C21: a call of createProject with an empty name, a name longer than 214
\* characters, a name with a character outside a-z 0-9 - . _ ~, a reserved
\* name or a core-module name, or with an inline preset that is not JSON,
\* ends in the catch block with exit code 1, with no Creator constructed and
\* the filesystem untouched; 'my app' fails on its characters and 'fs' as a
\* core-module name.
C21_InvalidInputRejectedEarly ==
  cli.phase # "idle" =>
    LET n == cli.projectName IN
      /\ (\/ Len(n) = 0
          \/ Len(n) > 214
          \/ \E i \in 1..Len(n) : n[i] \notin PackageNameChars
          \/ n \in reservedNames \cup nodeCoreModules
          \/ cli.inlinePreset = "{bad") =>
           /\ cli.phase = "exited"
           /\ cli.error \notin {None, "CreationFailed"}
           /\ cli.exit = "1"
           /\ ~cli.creator
           /\ ~cli.fsAccess
      /\ n = MyApp => cli.error = "InvalidCharacters"
      /\ n = <<"f", "s">> => cli.error = "CoreModuleName"
      /\ cli.creator => validateProjectName(n) = None

C21_Witness ==
  /\ cli.phase = "exited"
  /\ cli.projectName = <<"f", "s">>
  /\ cli.error = "CoreModuleName"
  /\ ~cli.creator

\* ============================================ the package-manager adapter
\* lib/utils/PackageManager.js.
MaxPackages == 2        \* package names passed to installPackages
MaxPathDirs == 2        \* entries of the PATH environment variable

\* PackageManager.js:34: the registry used when options.registry is missing.
DefaultRegistry == "https://registry.npmjs.org/"
\* options.registry and options.packageManager given to the constructor: None
\* when missing; "bun" is a key getManagerConfig has no descriptor for.
RegistryOptions == {None, "https://mirror.example/"}
ManagerOptions == {None, "bun"} \cup PackageManagers
PackageNames == {"lodash", "vue"}

\* PackageManager.js:52-107: the descriptors of the three variants.
configs(registry) ==
  [k \in PackageManagers |->
     CASE k = "npm" ->
            [command |-> "npm",
             install |-> <<"install">>,
             installDev |-> <<"install", "--save-dev">>,
             uninstall |-> <<"uninstall">>,
             update |-> <<"update">>,
             lockFile |-> "package-lock.json",
             commandArgs |->
               [install |-> <<"--registry", registry>>,
                installDev |-> <<"--save-dev", "--registry", registry>>,
                global |-> <<"--global">>,
                production |-> <<"--production">>,
                force |-> <<"--force">>,
                optional |-> <<"--optional">>,
                noOptional |-> <<"--no-optional">>,
                dryRun |-> <<"--dry-run">>]]
       [] k = "yarn" ->
            [command |-> "yarn",
             install |-> <<>>,
             installDev |-> <<"add", "--dev">>,
             uninstall |-> <<"remove">>,
             update |-> <<"upgrade">>,
             lockFile |-> "yarn.lock",
             commandArgs |->
               [install |-> <<"--registry=" \o registry>>,
                installDev |-> <<"--dev", "--registry=" \o registry>>,
                global |-> <<"global">>,
                production |-> <<"--production">>,
                force |-> <<"--force">>,
                optional |-> <<"--optional">>,
                noOptional |-> <<"--ignore-optional">>,
                dryRun |-> <<"--dry-run">>]]
       [] OTHER ->
            [command |-> "pnpm",
             install |-> <<"install">>,
             installDev |-> <<"add", "--save-dev">>,
             uninstall |-> <<"remove">>,
             update |-> <<"update">>,
             lockFile |-> "pnpm-lock.yaml",
             commandArgs |->
               [install |-> <<"--registry", registry>>,
                installDev |-> <<"--save-dev", "--registry", registry>>,
                global |-> <<"--global">>,
                production |-> <<"--production">>,
                force |-> <<"--force">>,
                optional |-> <<"--optional">>,
                noOptional |-> <<"--no-optional">>,
                dryRun |-> <<"--dry-run">>]]]

\* PackageManager.js:109: configs[this.packageManager] || configs.npm.
getManagerConfig(pm, registry) ==
  IF pm \in DOMAIN configs(registry) THEN configs(registry)[pm]
  ELSE configs(registry)["npm"]

\* PackageManager.js:31-45: the fields of a new adapter; given is the
\* options.packageManager it was constructed with.
NewAdapter(pm, registry) ==
  LET key == IF pm = None THEN "npm" ELSE pm
      reg == IF registry = None THEN DefaultRegistry ELSE registry
  IN [given |-> pm, packageManager |-> key, registry |-> reg,
      context |-> "context", managerConfig |-> getManagerConfig(key, reg)]

\* PackageManager.js:498-508 getCommandArgs: options is the sequence of the
\* <<key, value>> pairs of the object in key order; a pair contributes the
\* fragment of its key when its value is true and the descriptor has the key.
RECURSIVE getCommandArgs(_, _)
getCommandArgs(cfg, options) ==
  IF options = <<>> THEN <<>>
  ELSE LET key == Head(options)[1]
           value == Head(options)[2]
       IN (IF value /\ key \in DOMAIN cfg.commandArgs
           THEN cfg.commandArgs[key] ELSE <<>>)
          \o getCommandArgs(cfg, Tail(options))

\* The flags a caller can pass to installAll, and none of them set.
InstallFlags ==
  [production : BOOLEAN, force : BOOLEAN, optional : BOOLEAN,
   noOptional : BOOLEAN, dryRun : BOOLEAN]

\* Variant: installAll starts from the dev-install base.
installAllArgs_DevBase(cfg, options) ==
  cfg.installDev \o
  getCommandArgs(cfg, << <<"production", options.production>>,
                         <<"force", options.force>> >>)
\* PackageManager.js:144-150 installAll: the argument vector.  Only
\* production and force are taken from the options.
installAllArgs(cfg, options) ==
  cfg.install \o
  getCommandArgs(cfg, << <<"production", options.production>>,
                         <<"force", options.force>> >>)

\* Variant: installPackages puts the flag fragments before the packages.
installPackagesArgs_FlagsFirst(cfg, packages, options) ==
  (IF options.dev THEN cfg.installDev ELSE cfg.install) \o
  getCommandArgs(cfg, << <<"global", options.global>>,
                         <<"force", options.force>> >>) \o
  packages
\* PackageManager.js:164-171 installPackages: the argument vector.
installPackagesArgs(cfg, packages, options) ==
  (IF options.dev THEN cfg.installDev ELSE cfg.install) \o
  packages \o
  getCommandArgs(cfg, << <<"global", options.global>>,
                         <<"force", options.force>> >>)

\* ------------------------------------------------------- findExecutable
\* A file path is its directory and its file name; a command that is not an
\* absolute path has no directory.
Rel(file) == [dir |-> None, file |-> file]
NullPath == [dir |-> None, file |-> None]
DirName(i) == "/dir" \o ToString(i)

\* What one entry of PATH holds for the command looked up: the entry is the
\* empty string, or a directory where the bare file name is absent, exists
\* without passing the X_OK check, or exists and passes it, and where the
\* file name with the .cmd extension exists or not.
DirEntries ==
  {[empty |-> TRUE, bare |-> "absent", cmd |-> FALSE]} \cup
  [empty : {FALSE}, bare : {"absent", "noexec", "exec"}, cmd : BOOLEAN]
SearchPaths == UNION {[1..k -> DirEntries] : k \in 0..MaxPathDirs}

\* PackageManager.js:401-405: the common installation paths tried on win32.
commonPaths ==
  <<[dir |-> "C:/Program Files/nodejs", file |-> "npm.cmd"],
    [dir |-> "C:/Program Files (x86)/nodejs", file |-> "npm.cmd"],
    [dir |-> "%APPDATA%/npm", file |-> "npm.cmd"]>>

\* The machine findExecutable runs on: os.platform(), the entries of PATH (no
\* entry when PATH is unset or empty) and the common paths that exist.
Envs ==
  [platform : {"linux", "win32"}, path : SearchPaths,
   existing : {{}, {1}, {2, 3}}]

\* The machines runCommand is run on: runCommand only uses the result of
\* findExecutable, and every result is produced with at most one PATH entry.
RunEnvs ==
  [platform : {"linux", "win32"},
   path : {<<>>} \cup {<<d>> : d \in DirEntries},
   existing : {{}, {1}, {2, 3}}]

\* PackageManager.js:371-397: the scan of the PATH entries from entry i on.
RECURSIVE scanPath(_, _, _)
scanPath(command, env, i) ==
  IF i > Len(env.path) THEN NullPath
  ELSE LET d == env.path[i] IN
    IF d.empty THEN scanPath(command, env, i + 1)
    ELSE IF env.platform = "win32" /\ d.cmd
      THEN [dir |-> DirName(i), file |-> command.file \o ".cmd"]
    ELSE IF d.bare = "exec" THEN [dir |-> DirName(i), file |-> command.file]
    ELSE scanPath(command, env, i + 1)

\* PackageManager.js:379-394: whether the path the scan returns from entry i
\* on went through fs.accessSync(path, X_OK): the return of line 382 follows
\* fs.existsSync alone, the return of line 391 follows the access check.
RECURSIVE scanAccessChecked(_, _, _)
scanAccessChecked(command, env, i) ==
  IF i > Len(env.path) THEN FALSE
  ELSE LET d == env.path[i] IN
    IF d.empty THEN scanAccessChecked(command, env, i + 1)
    ELSE IF env.platform = "win32" /\ d.cmd THEN FALSE
    ELSE IF d.bare = "exec" THEN TRUE
    ELSE scanAccessChecked(command, env, i + 1)

\* PackageManager.js:359-415 findExecutable: the path found, NullPath for
\* null.
findExecutable(command, env) ==
  IF command.dir # None THEN command
  ELSE LET found == scanPath(command, env, 1) IN
    IF found # NullPath THEN found
    ELSE IF env.platform = "win32" /\ env.existing # {}
      THEN commonPaths[CHOOSE k \in env.existing : \A j \in env.existing : k <= j]
    ELSE NullPath

\* The commands findExecutable is asked for.
Commands == {Rel(c) : c \in PackageManagers} \cup {[dir |-> "/usr/bin", file |-> "npm"]}

\* ------------------------------------------------------------ the methods
EmptyObject == "{}"
\* What the child writes to stdout: the JSON of a package list with
\* dependencies, a JSON object without data, the JSON null, text that is not
\* JSON, nothing.
Outputs == {"{data:{dependencies}}", "{name}", "null", "garbage", ""}
\* PackageManager.js:515-523 parsePackageList.
parsePackageList(output) ==
  IF output = "{data:{dependencies}}" THEN "dependencies" ELSE EmptyObject
\* PackageManager.js:530-536 parseOutdatedOutput.
parseOutdatedOutput(output) ==
  IF output \in {"garbage", ""} THEN EmptyObject ELSE output

\* PackageManager.js:432: the error of runCommand when no executable is found.
ExecutableNotFound(command) == "ExecutableNotFound: " \o command
\* PackageManager.js:482, 488.
CommandFailed(code) == "CommandFailed: " \o ToString(code)
LaunchError == "LaunchError"

\* A method has been called and has reached its runCommand.
StartCall(method, input, args, capture) ==
  /\ adapter # NoAdapter
  /\ call = NoCall
  /\ resolver = NoResolver
  /\ call' = [method |-> method, input |-> input,
              command |-> adapter.managerConfig.command, args |-> args,
              capture |-> capture, cwd |-> adapter.context,
              phase |-> "runCommand", executablePath |-> NullPath,
              spawned |-> <<>>, exit |-> None, stdout |-> <<>>, stderr |-> "",
              output |-> None, runError |-> None, detail |-> None,
              lateClose |-> FALSE, outcome |-> None, error |-> None,
              value |-> None]
  /\ UNCHANGED <<creatorVars, logger, cli, adapter, resolver>>

\* Variant: the catch blocks of the advisory methods rethrow.
Settled_AdvisoryRethrows(method, error, output) ==
  [outcome |-> IF error = None THEN "resolved" ELSE "rejected",
   error |-> error,
   value |-> CASE error # None -> None
               [] method = "getInstalledPackages" -> parsePackageList(output)
               [] method = "checkForUpdates" -> parseOutdatedOutput(output)
               [] method = "validateLockFile" -> "true"
               [] OTHER -> None]

\* What the method returns to its caller once its runCommand has resolved
\* with output (error = None) or rejected with error: installAll and
\* installPackages pass the outcome on (PackageManager.js:152, 173);
\* getInstalledPackages (253-262) and checkForUpdates (274-283) parse the
\* output or return {} from their catch; validateLockFile (321-330) returns
\* true or false.
Settled(method, error, output) ==
  CASE method \in {"installAll", "installPackages"} ->
         [outcome |-> IF error = None THEN "resolved" ELSE "rejected",
          error |-> error, value |-> None]
    [] method = "getInstalledPackages" ->
         [outcome |-> "resolved", error |-> None,
          value |-> IF error = None THEN parsePackageList(output) ELSE EmptyObject]
    [] method = "checkForUpdates" ->
         [outcome |-> "resolved", error |-> None,
          value |-> IF error = None THEN parseOutdatedOutput(output) ELSE EmptyObject]
    [] OTHER ->
         [outcome |-> "resolved", error |-> None,
          value |-> IF error = None THEN "true" ELSE "false"]

\* The call is over: runCommand has settled, with the error it rejects with
\* or with the output it resolves with, and the method has returned.
AfterSettle(c, exit, error, output) ==
  LET r == Settled(c.method, error, output) IN
    [c EXCEPT !.phase = "settled", !.exit = exit,
              !.output = output, !.runError = error,
              !.outcome = r.outcome, !.error = r.error,
              !.value = r.value]
Settle(exit, error, output) == call' = AfterSettle(call, exit, error, output)

\* PackageManager.js:31-45: new PackageManager(options).
Construct(pm, registry) ==
  /\ adapter = NoAdapter
  /\ adapter' = NewAdapter(pm, registry)
  /\ UNCHANGED <<creatorVars, logger, cli, call, resolver>>

\* PackageManager.js:144-155 installAll(options).
InstallAll(options) ==
  StartCall("installAll", options,
            installAllArgs(adapter.managerConfig, options), FALSE)

\* PackageManager.js:164-176 installPackages(packages, options).
InstallPackages(packages, options) ==
  StartCall("installPackages", [packages |-> packages, options |-> options],
            installPackagesArgs(adapter.managerConfig, packages, options), FALSE)

\* PackageManager.js:238-256 getInstalledPackages(packageName).
GetInstalledPackages(packageName) ==
  StartCall("getInstalledPackages", [packageName |-> packageName],
            IF packageName # None
            THEN <<"list", packageName, "--depth=0", "--json">>
            ELSE <<"list", "--depth=0", "--json">>,
            TRUE)

\* PackageManager.js:270-277 checkForUpdates(packageName).
CheckForUpdates(packageName) ==
  StartCall("checkForUpdates", [packageName |-> packageName],
            <<"outdated", packageName, "--json">>, TRUE)

\* Variant: the dry run is started whether the lock file exists or not.
ValidateLockFile_SkipsExistsCheck(lockFileExists) ==
  StartCall("validateLockFile",
            [lockFile |-> adapter.managerConfig.lockFile, exists |-> lockFileExists],
            <<"install", "--dry-run">>, TRUE)
\* PackageManager.js:314-326 validateLockFile: fs.pathExists of the lock file
\* answers; without the file the method returns false at once.
ValidateLockFile(lockFileExists) ==
  IF lockFileExists
  THEN StartCall("validateLockFile",
                 [lockFile |-> adapter.managerConfig.lockFile, exists |-> TRUE],
                 <<"install", "--dry-run">>, TRUE)
  ELSE /\ adapter # NoAdapter
       /\ call = NoCall
       /\ resolver = NoResolver
       /\ call' = [method |-> "validateLockFile",
                   input |-> [lockFile |-> adapter.managerConfig.lockFile,
                              exists |-> FALSE],
                   command |-> adapter.managerConfig.command, args |-> <<>>,
                   capture |-> FALSE, cwd |-> adapter.context,
                   phase |-> "settled", executablePath |-> NullPath,
                   spawned |-> <<>>, exit |-> None, stdout |-> <<>>, stderr |-> "",
                   output |-> None, runError |-> None, detail |-> None,
                   lateClose |-> FALSE, outcome |-> "resolved", error |-> None,
                   value |-> "false"]
       /\ UNCHANGED <<creatorVars, logger, cli, adapter, resolver>>

\* PackageManager.js:454: executablePath.endsWith('.cmd').
EndsWithCmd(path) == path.file \in {c \o ".cmd" : c \in PackageManagers}

\* Variant: the child is spawned with the bare command when no executable is
\* found.
RunCommand_SpawnsAnyway(env) ==
  /\ call # NoCall
  /\ call.phase = "runCommand"
  /\ call' = [call EXCEPT
                !.phase = "child",
                !.executablePath = findExecutable(Rel(call.command), env),
                !.spawned = Append(@,
                   [command |-> Rel(call.command), args |-> call.args,
                    cwd |-> call.cwd,
                    stdio |-> IF call.capture THEN "pipe" ELSE "inherit"])]
  /\ UNCHANGED <<creatorVars, logger, cli, adapter, resolver>>
\* PackageManager.js:424-462 runCommand up to spawn: findExecutable on the
\* machine env; without an executable the promise is rejected and nothing is
\* spawned, else the child is spawned.
RunCommand(env) ==
  /\ call # NoCall
  /\ call.phase = "runCommand"
  /\ LET executablePath == findExecutable(Rel(call.command), env) IN
       IF executablePath = NullPath
       THEN Settle(None, ExecutableNotFound(call.command), "")
       ELSE call' =
              [call EXCEPT
                 !.phase = "child",
                 !.executablePath = executablePath,
                 !.spawned = Append(@,
                    [command |-> IF env.platform = "win32" /\ EndsWithCmd(executablePath)
                                 THEN executablePath ELSE Rel(call.command),
                     args |-> call.args, cwd |-> call.cwd,
                     stdio |-> IF call.capture THEN "pipe" ELSE "inherit"])]
  /\ UNCHANGED <<creatorVars, logger, cli, adapter, resolver>>

\* What the child writes to its stdout, in chunks; a chunk of Whitespace is
\* white space, every other chunk starts and ends with a visible character.
Whitespace == {" ", "\n", "\t"}
RawOutputs ==
  {<<t>> : t \in Outputs \ {""}} \cup
  {<<>>, <<"\n">>, <<" ", "{name}", "\n">>, <<"garbage", "\n", "\t">>}
\* What the child writes to its stderr.
ErrorOutputs == {"", "ERR!"}

\* The string made of the chunks.
RECURSIVE Text(_)
Text(chunks) ==
  IF chunks = <<>> THEN "" ELSE Head(chunks) \o Text(Tail(chunks))

\* Variant: the output is passed on as captured.
trim_Untrimmed(chunks) == chunks
\* String.prototype.trim (PackageManager.js:479): the white space at both
\* ends is dropped.
RECURSIVE trimStart(_)
trimStart(chunks) ==
  IF chunks # <<>> /\ Head(chunks) \in Whitespace
  THEN trimStart(Tail(chunks)) ELSE chunks
RECURSIVE trimEnd(_)
trimEnd(chunks) ==
  IF chunks # <<>> /\ chunks[Len(chunks)] \in Whitespace
  THEN trimEnd(SubSeq(chunks, 1, Len(chunks) - 1)) ELSE chunks
trim(chunks) == trimEnd(trimStart(chunks))

\* Variant: the close handler resolves whatever the exit code is.
closeError_AlwaysResolves(code) == None
\* PackageManager.js:478-483, the close handler: exit code 0 resolves, any
\* other code rejects with the command-failed error of that code.
closeError(code) == IF code = 0 THEN None ELSE CommandFailed(code)

\* PackageManager.js:464-484: the child closes with an exit code, having
\* written stdout to its stdout and stderr to its stderr; they are
\* accumulated into output and error with capture only.
CommandClose(code, stdout, stderr) ==
  /\ call # NoCall
  /\ call.phase = "child"
  /\ LET output == IF call.capture THEN stdout ELSE <<>>
         error == IF call.capture THEN stderr ELSE ""
     IN call' = AfterSettle(
                  [call EXCEPT
                     !.stdout = output, !.stderr = error,
                     !.detail = IF closeError(code) = None THEN None
                                ELSE IF error # "" THEN error ELSE Text(output)],
                  ToString(code), closeError(code), Text(trim(output)))
  /\ UNCHANGED <<creatorVars, logger, cli, adapter, resolver>>

\* PackageManager.js:486-489: the child could not be launched; the close
\* event of the child is still to come.
CommandError ==
  /\ call # NoCall
  /\ call.phase = "child"
  /\ call' = [AfterSettle(call, None, LaunchError, "") EXCEPT !.lateClose = TRUE]
  /\ UNCHANGED <<creatorVars, logger, cli, adapter, resolver>>

\* Variant: the close handler that runs after the error handler settles the
\* call again.
LateClose_SettlesAgain(code) ==
  /\ call # NoCall
  /\ call.phase = "settled"
  /\ call.lateClose
  /\ call' = [AfterSettle(call, ToString(code), closeError(code), "")
                EXCEPT !.lateClose = FALSE]
  /\ UNCHANGED <<creatorVars, logger, cli, adapter, resolver>>
\* PackageManager.js:477-484 after 486-489: the close handler runs on a
\* promise that the error handler has rejected; its resolve or reject has
\* no effect.
LateClose(code) ==
  /\ call # NoCall
  /\ call.phase = "settled"
  /\ call.lateClose
  /\ call' = [call EXCEPT !.lateClose = FALSE]
  /\ UNCHANGED <<creatorVars, logger, cli, adapter, resolver>>

\* PackageManager.js:359: findExecutable(command) called on its own.
FindExecutable(command, env) ==
  /\ adapter # NoAdapter
  /\ call = NoCall
  /\ resolver = NoResolver
  /\ resolver' = [command |-> command, env |-> env,
                  result |-> findExecutable(command, env),
                  accessChecked |-> command.dir = None /\
                                    scanAccessChecked(command, env, 1)]
  /\ UNCHANGED <<creatorVars, logger, cli, adapter, call>>

PackageLists == UNION {[1..k -> PackageNames] : k \in 0..MaxPackages}

AdapterInit == CreatorAtRest /\ UtilsAtRest
AdapterNext ==
  \/ \E pm \in ManagerOptions, registry \in RegistryOptions : Construct(pm, registry)
  \/ \E options \in InstallFlags : InstallAll(options)
  \/ \E packages \in PackageLists,
        options \in [dev : BOOLEAN, global : BOOLEAN, force : BOOLEAN] :
          InstallPackages(packages, options)
  \/ \E packageName \in {None} \cup PackageNames : GetInstalledPackages(packageName)
  \/ \E packageName \in PackageNames : CheckForUpdates(packageName)
  \/ \E lockFileExists \in BOOLEAN : ValidateLockFile(lockFileExists)
  \/ call # NoCall /\ \E env \in RunEnvs : RunCommand(env)
  \/ \E code \in {0, 1}, stdout \in RawOutputs, stderr \in ErrorOutputs :
       CommandClose(code, stdout, stderr)
  \/ CommandError
  \/ \E code \in {0, 1} : LateClose(code)
  \/ resolver = NoResolver /\ call = NoCall /\
       \E command \in Commands, env \in Envs : FindExecutable(command, env)
AdapterSpec == AdapterInit /\ [][AdapterNext]_vars

\* ------------------------------------------------- claims on the adapter
\* The number of places of the sequence s that hold x.
Occurrences(s, x) == Cardinality({i \in 1..Len(s) : s[i] = x})

\* C22: the argument vector installAll builds with production set holds
\* --production exactly once and none of add, --dev, --save-dev, for the
\* descriptor of each of npm, yarn and pnpm.
C22_InstallAllProduction ==
  (call # NoCall /\ call.method = "installAll" /\ call.input.production) =>
    /\ Occurrences(call.args, "--production") = 1
    /\ Range(call.args) \cap {"add", "--dev", "--save-dev"} = {}

C22_Witness ==
  /\ call # NoCall
  /\ call.method = "installAll"
  /\ call.input.production
  /\ adapter.packageManager = "yarn"
  /\ call.args = <<"--production">>
  /\ call.phase = "settled"

\* The fragment the descriptor of the adapter has for a flag.
Fragment(flag) == adapter.managerConfig.commandArgs[flag]

\* C23: the argument vector of installAll is the install template followed by
\* the fragments of the flags that are set, and it holds the fragment of
\* each of production, force, optional, noOptional and dryRun exactly when
\* that flag is set.
C23_InstallAllFlagFragments ==
  (call # NoCall /\ call.method = "installAll") =>
    /\ SubSeq(call.args, 1, Len(adapter.managerConfig.install)) =
         adapter.managerConfig.install
    /\ \A flag \in {"production", "force", "optional", "noOptional", "dryRun"} :
         (Fragment(flag)[1] \in Range(call.args)) <=> call.input[flag]

\* The dev-install base subcommand of each variant (PackageManager.js:56, 74,
\* 92), by the command of the descriptor.
DevBase(command) ==
  CASE command = "npm" -> <<"install", "--save-dev">>
    [] command = "yarn" -> <<"add", "--dev">>
    [] OTHER -> <<"add", "--save-dev">>

\* C24: the argument vector installPackages builds with dev set is the dev
\* base of the variant, then the package names as given and in the given
\* order, then only flag fragments: every package name stands once for each
\* time it was given, after the base and before the flags.
C24_InstallPackagesDevOrder ==
  (call # NoCall /\ call.method = "installPackages" /\ call.input.options.dev) =>
    LET base == DevBase(call.command)
        packages == call.input.packages
        n == Len(base) + Len(packages)
    IN /\ Len(call.args) >= n
       /\ SubSeq(call.args, 1, Len(base)) = base
       /\ SubSeq(call.args, Len(base) + 1, n) = packages
       /\ \A i \in (n + 1)..Len(call.args) :
            call.args[i] \in {"--global", "global", "--force"}
       /\ \A x \in PackageNames :
            Occurrences(call.args, x) = Occurrences(packages, x)
       /\ call.input.options.force <=> "--force" \in Range(call.args)

C24_Witness ==
  /\ call # NoCall
  /\ call.method = "installPackages"
  /\ adapter.packageManager = "pnpm"
  /\ call.args = <<"add", "--save-dev", "vue", "lodash", "--global", "--force">>
  /\ call.phase = "child"

\* The argument vector passes the registry of the adapter in the syntax of
\* the variant: --registry <url> for npm and pnpm, --registry=<url> for yarn.
PassesRegistry(args) ==
  IF adapter.managerConfig.command = "yarn"
  THEN ("--registry=" \o adapter.registry) \in Range(args)
  ELSE \E i \in 1..(Len(args) - 1) :
         args[i] = "--registry" /\ args[i + 1] = adapter.registry

\* C25: every install invocation, installAll and installPackages alike,
\* passes the configured registry to the package manager in the registry
\* flag syntax of the variant.
C25_InstallPassesRegistry ==
  (call # NoCall /\ call.method \in {"installAll", "installPackages"}) =>
    PassesRegistry(call.args)

\* C26: an adapter stays bound to the descriptor of its own variant key, and
\* an adapter constructed with a key other than npm, yarn and pnpm is bound
\* to the descriptor of none of them.
C26_BoundToOwnDescriptor ==
  adapter # NoAdapter =>
    /\ adapter.packageManager \in PackageManagers =>
         adapter.managerConfig = configs(adapter.registry)[adapter.packageManager]
    /\ adapter.packageManager \notin PackageManagers =>
         \A k \in PackageManagers :
           adapter.managerConfig # configs(adapter.registry)[k]

\* The output the command printed is not the JSON the method reads.
Unparsable(method, output) ==
  \/ output \in {"", "garbage"}
  \/ method = "getInstalledPackages" /\ output = "null"

\* C27: getInstalledPackages and checkForUpdates never reject; when the
\* command fails, cannot be launched or is not found, or prints output that
\* cannot be parsed, they return an empty object.
C27_AdvisoryQueriesNeverReject ==
  (/\ call # NoCall
   /\ call.method \in {"getInstalledPackages", "checkForUpdates"}
   /\ call.phase = "settled") =>
    /\ call.outcome = "resolved"
    /\ call.error = None
    /\ (call.runError # None \/ Unparsable(call.method, call.output)) =>
         call.value = EmptyObject

C27_Witness ==
  /\ call # NoCall
  /\ call.method = "checkForUpdates"
  /\ call.phase = "settled"
  /\ call.runError = CommandFailed(1)
  /\ call.spawned # <<>>
  /\ call.value = EmptyObject

\* C28: validateLockFile returns false and launches no process when the lock
\* file is absent; when it is present it runs install --dry-run with the
\* output captured and returns true exactly when the command exits with
\* code 0; it never rejects.
C28_ValidateLockFile ==
  (call # NoCall /\ call.method = "validateLockFile") =>
    /\ ~call.input.exists =>
         /\ call.phase = "settled"
         /\ call.value = "false"
         /\ call.spawned = <<>>
    /\ call.input.exists =>
         /\ call.args = <<"install", "--dry-run">>
         /\ call.capture
         /\ \A i \in 1..Len(call.spawned) : call.spawned[i].stdio = "pipe"
    /\ call.phase = "settled" =>
         /\ call.outcome = "resolved"
         /\ call.error = None
         /\ call.value \in {"true", "false"}
         /\ call.value = "true" <=> call.exit = "0"

C28_Witness ==
  /\ call # NoCall
  /\ call.method = "validateLockFile"
  /\ call.input.exists
  /\ call.phase = "settled"
  /\ call.exit = "0"
  /\ call.value = "true"
  /\ Len(call.spawned) = 1

\* A fallback installation path that exists holds a file of the command.
MatchesFallback(command, env) ==
  \E k \in env.existing : commonPaths[k].file = command.file \o ".cmd"

\* An executable of the command stands in a directory of the search path.
OnSearchPath(command, env) ==
  \E i \in 1..Len(env.path) :
    /\ ~env.path[i].empty
    /\ \/ env.path[i].bare = "exec"
       \/ env.platform = "win32" /\ env.path[i].cmd

\* C29: findExecutable returns null for a name that is present in no
\* directory of the search path and matches no fallback path, for every
\* state of the search path.
C29_AbsentNameIsNull ==
  (/\ resolver # NoResolver
   /\ resolver.command.dir = None
   /\ ~OnSearchPath(resolver.command, resolver.env)
   /\ ~MatchesFallback(resolver.command, resolver.env)) =>
    resolver.result = NullPath

\* C30: when findExecutable reports not-found, runCommand rejects with the
\* executable-not-found error that names the searched command, and launches
\* no child.
C30_NotFoundRejectsWithoutSpawn ==
  (/\ call # NoCall
   /\ call.phase # "runCommand"
   /\ call.args # <<>> \/ call.method # "validateLockFile"
   /\ call.executablePath = NullPath) =>
    /\ call.phase = "settled"
    /\ call.spawned = <<>>
    /\ call.exit = None
    /\ call.runError = "ExecutableNotFound: " \o call.command
    /\ call.method \in {"installAll", "installPackages"} =>
         call.outcome = "rejected" /\ call.error = call.runError

C30_Witness ==
  /\ call # NoCall
  /\ call.method = "installPackages"
  /\ call.phase = "settled"
  /\ call.executablePath = NullPath
  /\ call.runError = "ExecutableNotFound: yarn"
  /\ call.outcome = "rejected"
  /\ call.spawned = <<>>

\* The chunks of an output between its first and its last visible chunk.
Core(chunks) ==
  LET visible == {i \in 1..Len(chunks) : chunks[i] \notin Whitespace} IN
    IF visible = {} THEN <<>>
    ELSE SubSeq(chunks,
                CHOOSE i \in visible : \A j \in visible : i <= j,
                CHOOSE i \in visible : \A j \in visible : i >= j)

\* The outcome of runCommand for a call that has spawned its child.
C31_Settlement ==
  (call # NoCall /\ call.spawned # <<>>) =>
    /\ Len(call.spawned) = 1
    /\ call.spawned[1].stdio = (IF call.capture THEN "pipe" ELSE "inherit")
    /\ ~call.capture => call.stdout = <<>> /\ call.stderr = ""
    /\ call.phase = "settled" =>
         /\ call.runError = None <=> call.exit = "0"
         /\ call.runError = None => call.output = Text(Core(call.stdout))
         /\ call.exit \notin {None, "0"} =>
              /\ call.runError = "CommandFailed: " \o call.exit
              /\ call.detail \in {call.stderr, Text(call.stdout)}
              /\ call.detail = "" => call.stderr = "" /\ call.stdout = <<>>

\* A settled call keeps its outcome.
C31_SettledStays ==
  (call # NoCall /\ call.phase = "settled") =>
    /\ call'.phase = "settled"
    /\ call'.runError = call.runError
    /\ call'.output = call.output
    /\ call'.outcome = call.outcome
    /\ call'.value = call.value

\* C31: runCommand settles once per call; for a spawned child it resolves,
\* with the captured stdout trimmed, exactly when the child closes with exit
\* code 0, and rejects with the command-failed error of the exit code and
\* the captured output on another exit code; the streams of the child are
\* piped and captured with capture and inherited, with nothing captured,
\* without it.
C31_RunCommandSettlesOnce == []C31_Settlement /\ [][C31_SettledStays]_vars

C31_Witness ==
  /\ call # NoCall
  /\ call.phase = "settled"
  /\ call.capture
  /\ call.exit = "0"
  /\ call.stdout = <<" ", "{name}", "\n">>
  /\ call.output = "{name}"
  /\ call.runError = None

\* The entry of the search path the directory of a found path stands for,
\* 0 when the path is not from the scan.
ScanIndex(found, env) ==
  IF \E i \in 1..Len(env.path) : DirName(i) = found.dir
  THEN CHOOSE i \in 1..Len(env.path) : DirName(i) = found.dir
  ELSE 0

\* Directory entry d holds a candidate for the command that exists and is
\* tested before the bare file name: the file with the .cmd extension on
\* win32.
ExtensionCandidate(env, d) == env.platform = "win32" /\ d.cmd

\* C32: an absolute name is returned unchanged; a path returned from the
\* scan of the search path exists, has passed the execute-permission check,
\* is the extension-qualified file when that one exists and else the bare
\* file, and stands in the first directory in path order that holds a
\* candidate; a bare file that exists without being executable is never
\* returned.
C32_ScanOrderAndPermission ==
  resolver # NoResolver =>
    LET command == resolver.command
        env == resolver.env
        found == resolver.result
        i == ScanIndex(found, env)
    IN /\ command.dir # None => found = command
       /\ (command.dir = None /\ i > 0) =>
            /\ ~env.path[i].empty
            /\ \/ found.file = command.file \o ".cmd" /\ ExtensionCandidate(env, env.path[i])
               \/ /\ found.file = command.file
                  /\ env.path[i].bare = "exec"
                  /\ ~ExtensionCandidate(env, env.path[i])
            /\ \A j \in 1..(i - 1) :
                 \/ env.path[j].empty
                 \/ /\ env.path[j].bare # "exec"
                    /\ ~ExtensionCandidate(env, env.path[j])
            /\ resolver.accessChecked

\* The name of the tool a file is, without the executable extension.
BaseName(file) ==
  IF \E c \in PackageManagers : file = c \o ".cmd"
  THEN CHOOSE c \in PackageManagers : file = c \o ".cmd"
  ELSE file

\* C33: a path findExecutable returns for a name that is not absolute is a
\* file of that name, with or without the executable extension, also when
\* it comes from the fallback installation paths; and the child runCommand
\* spawns is the command of the adapter's descriptor.
C33_ReturnsRequestedTool ==
  /\ (/\ resolver # NoResolver
      /\ resolver.command.dir = None
      /\ resolver.result # NullPath) =>
       BaseName(resolver.result.file) = resolver.command.file
  /\ call # NoCall =>
       /\ call.executablePath # NullPath =>
            BaseName(call.executablePath.file) = call.command
       /\ \A i \in 1..Len(call.spawned) :
            BaseName(call.spawned[i].command.file) = call.command

\* C34: the argument vector installPackages builds without dev for a list of
\* at least one package starts with a subcommand, install or add, and not
\* with a package name.
C34_InstallPackagesStartsWithSubcommand ==
  (/\ call # NoCall
   /\ call.method = "installPackages"
   /\ ~call.input.options.dev
   /\ call.input.packages # <<>>) =>
    /\ call.args # <<>>
    /\ call.args[1] \in {"install", "add"}
    /\ call.args[1] \notin PackageNames

\* C35: for a project name validateProjectName accepts, the target path is
\* the working directory for the name '.' only, and for every other name a
\* direct child of the working directory, never one of its ancestors.
C35_TargetInsideWorkingDirectory ==
  (cli.phase # "idle" /\ validateProjectName(cli.projectName) = None /\
   cli.context # <<>>) =>
    /\ cli.context = Cwd <=> cli.projectName = <<".">>
    /\ cli.projectName # <<".">> =>
         /\ Len(cli.context) = Len(Cwd) + 1
         /\ SubSeq(cli.context, 1, Len(Cwd)) = Cwd
    /\ \A k \in 0..(Len(Cwd) - 1) : cli.context # SubSeq(Cwd, 1, k)

\* ============================================================== the logger
\* logger.js: the Logger class, one instance, the calls of log (through
\* error, warn, info, success and debug), setLevel and setSilent.

MaxMessages == 2        \* messages kept in logger.console

\* The levels a message is logged with (logger.js:98-136).
MessageLevels == {"error", "warn", "info", "success", "debug"}
\* The levels a logger is configured with: the four of the levels object and
\* a name that is not in it.
LevelOptions == {"debug", "info", "warn", "error", "verbose"}

\* logger.js:73: the levels object of shouldLog.
levels == [debug |-> 0, info |-> 1, warn |-> 2, error |-> 3]
\* logger.js:74-75: levels[level] || 1, where undefined and 0 are falsy.
levelOrOne(level) ==
  IF level \in DOMAIN levels /\ levels[level] # 0 THEN levels[level] ELSE 1

\* logger.js:70-78 shouldLog of the logger l.
shouldLog(l, level) ==
  IF l.silent THEN FALSE
  ELSE levelOrOne(level) >= levelOrOne(l.level)

\* logger.js:86-91 log: the message is formatted and passed to console.log
\* when shouldLog says so.
Log(level) ==
  /\ Len(logger.console) < MaxMessages
  /\ logger' =
       [logger EXCEPT
          !.console = IF shouldLog(logger, level) THEN Append(@, level) ELSE @,
          !.last = [level |-> level, configured |-> logger.level,
                    silent |-> logger.silent,
                    written |-> shouldLog(logger, level)]]
  /\ UNCHANGED <<creatorVars, cli, adapter, call, resolver>>

\* logger.js:199-201 setLevel.
SetLevel(level) ==
  /\ logger.level # level
  /\ logger' = [logger EXCEPT !.level = level]
  /\ UNCHANGED <<creatorVars, cli, adapter, call, resolver>>

\* logger.js:207-209 setSilent.
SetSilent(silent) ==
  /\ logger.silent # silent
  /\ logger' = [logger EXCEPT !.silent = silent]
  /\ UNCHANGED <<creatorVars, cli, adapter, call, resolver>>

LoggerInit ==
  /\ CreatorAtRest
  /\ cli = NoCli
  /\ adapter = NoAdapter
  /\ call = NoCall
  /\ resolver = NoResolver
  /\ \E level \in LevelOptions \cup {None}, silent \in BOOLEAN :
       logger = NewLogger(level, silent)
LoggerNext ==
  \/ \E level \in MessageLevels : Log(level)
  \/ \E level \in LevelOptions : SetLevel(level)
  \/ \E silent \in BOOLEAN : SetSilent(silent)
LoggerSpec == LoggerInit /\ [][LoggerNext]_vars

\* The rank of a level in the order debug < info < warn < error.
LevelRank(level) ==
  CASE level = "debug" -> 0
    [] level = "info" -> 1
    [] level = "warn" -> 2
    [] level = "error" -> 3

\* C36: with the order debug < info < warn < error, a message is written
\* exactly when the logger is not silent and the rank of the level of the
\* message is at least the rank of the configured level; a debug message is
\* not written at level info.
C36_LevelOrder ==
  (/\ logger.last # NoLast
   /\ logger.last.level \in {"debug", "info", "warn", "error"}
   /\ logger.last.configured \in {"debug", "info", "warn", "error"}) =>
    /\ logger.last.written <=>
         /\ ~logger.last.silent
         /\ LevelRank(logger.last.level) >= LevelRank(logger.last.configured)
    /\ (logger.last.level = "debug" /\ logger.last.configured = "info") =>
         ~logger.last.written

====
